---- MODULE Spec2Model ----
(***************************************************************************)
(* Edge-embedding and link-prediction evaluation of embiggen:              *)
(*   - LinkPrediction            (src/embiggen/link_prediction.py)         *)
(*   - load_embeddings           (src/xn2v/utils/embedding_utils.py)       *)
(*   - main, get_classifier_model (src/runLinkPrediction_ppi.py)           *)
(*                                                                         *)
(* Numbers.  The components of a node vector are the floats load_embeddings *)
(* parses; the model draws them from the integers 0..MaxVal.  A component  *)
(* of an edge vector is a rational <<n, d>> in lowest terms with d > 0, so *)
(* that the mean of 1 and 0 is <<1, 2>> and not an integer.                *)
(*                                                                         *)
(* Arrays.  A numpy array of rows is the sequence of its rows; the array   *)
(* np.array([]) of shape (0,) is the empty sequence.                       *)
(***************************************************************************)
EXTENDS Integers, Sequences, FiniteSets, TLC

VARIABLES
    self,       \* the LinkPrediction object: a record of its attributes
    locals,     \* the local variables of runLinkPrediction_ppi.main
    entry,      \* which program runs: "create_edge_embeddings", "LinkPrediction", "main"
    status,     \* "running", "done" (main returned) or "aborted" (uncaught exception / exit)
    error,      \* the exception that ended the run, "none" while there is none
    calls,      \* the calls made on the classifier instance of the current run, in order
    built,      \* the names of the edge lists handed to the edge embedding builder so far
    log,        \* the notices and errors logged so far (a set of messages)
    emitted,    \* the metric blocks the last output_classifier_results logged
    edge_list,  \* argument of a direct create_edge_embeddings call
    ret         \* what that call returned (or raised)

vars == <<self, locals, entry, status, error, calls, built, log, emitted,
          edge_list, ret>>

----------------------------------------------------------------------------
(* Bounds of the model *)

\* largest component of a stored node vector
MaxVal == 1
\* longest edge list handed to a direct create_edge_embeddings call, and
\* the number of positive edges of a partition
MaxLen == 2
\* most lines of an embedding file handed to a direct load_embeddings call
MaxLines == 2
\* most fields after the first of a line of such a file
MaxFields == 2

----------------------------------------------------------------------------
(* Values *)

\* A Python value bound to an attribute or a local variable: its type and,
\* for a list or an array, its rows (v).  A float or a dict is the
\* one-element sequence of its content.
\*   Unset: the name is not bound (reading it raises)
Unset == [kind |-> "unset", v |-> <<>>]
None == [kind |-> "None", v |-> <<>>]
\* the Python list []
EmptyList == [kind |-> "list", v |-> <<>>]
\* a numpy array with the rows x (np.array([]) has none)
Nd(x) == [kind |-> "ndarray", v |-> x]
\* a float / a dict
Value(x) == [kind |-> "value", v |-> <<x>>]

\* node identifiers; "C" is the one that no embedding file line names
StoredNodes == {"A", "B", "N"}
Nodes == StoredNodes \cup {"C"}
\* dimensionality D of the node vectors of one store
Components == {1, 2}
Vectors == [Components -> 0..MaxVal]

Methods == {"hadamard", "average", "weightedL1", "weightedL2", "cosine"}
KnownMethods == {"hadamard", "average", "weightedL1", "weightedL2"}
ClassifierNames == {"LR", "RF", "SVM", "MLP", "FFNN", "MultiModalFFNN", "XGB"}

Abs(x) == IF x < 0 THEN -x ELSE x

RECURSIVE Gcd(_, _)
Gcd(a, b) == IF b = 0 THEN a ELSE Gcd(b, a % b)

\* n/g over d/g
Reduce(n, d, g) == <<n \div g, d \div g>>

\* the rational n/d (d > 0) in lowest terms
Rat(n, d) == Reduce(n, d, Gcd(Abs(n), d))

\* a sequence of n copies of x
Repeat(x, n) == [i \in 1..n |-> x]

----------------------------------------------------------------------------
(* Embedding files, load_embeddings and write_embeddings *)

\* An embedding file is a path (None, the path of no file, or of a file)
\* and the lines of the file.  A line is its words and the separator
\* written between them: the text of the line is the words joined by the
\* separator, followed by "\n".
NoPath == [path |-> "None", lines |-> <<>>]
MissingFile == [path |-> "missing", lines |-> <<>>]
File(lines) == [path |-> "file", lines |-> lines]

\* the decimal text of the component k: what str() writes for it and what
\* float() reads back (components are compared at the precision written)
DecimalText == <<"0.0", "1.0", "2.0", "3.0">>
\* str() writing 0.0 for every component
str_Zero(k) == DecimalText[1]
str(k) == DecimalText[k + 1]
IsNumber(s) == \E k \in 1..Len(DecimalText) : DecimalText[k] = s
float(s) == (CHOOSE k \in 1..Len(DecimalText) : DecimalText[k] = s) - 1

\* sep.join(words)
RECURSIVE Join(_, _)
Join(words, sep) ==
    IF Len(words) = 0 THEN ""
    ELSE IF Len(words) = 1 THEN words[1]
    ELSE words[1] \o sep \o Join(Tail(words), sep)

\* line.split(' '): the fields between single spaces.  float() ignores the
\* "\n" that ends the last field, but a line without any space is one field
\* that keeps it.
SplitOnSpace(line) ==
    IF line.sep = " " /\ Len(line.words) > 1 THEN line.words
    ELSE <<Join(line.words, line.sep) \o "\n">>

\* line.split(): the words between any whitespace
SplitOnWhitespace(line) == line.words

\* [float(i) for i in fields[1:]]
FloatsOf(fields) == [i \in 1..(Len(fields) - 1) |-> float(fields[i + 1])]
AllNumbers(fields) == \A i \in 2..Len(fields) : IsNumber(fields[i])

\* the dict built from the fields of the lines, in order: fields[0] of a
\* line is bound to the Python list of floats of that line (a later line of
\* the same key replaces an earlier one): the value bound to a node is a
\* list, never a numpy array
StoreOf(fields) ==
    [n \in {fields[i][1] : i \in 1..Len(fields)} |->
        [kind |-> "list",
         v |-> FloatsOf(fields[CHOOSE i \in 1..Len(fields) :
                                  /\ fields[i][1] = n
                                  /\ \A j \in (i+1)..Len(fields) : fields[j][1] # n])]]

\* load_embeddings(file_name): the store, or the exception
load_embeddings(file_name) ==
    IF file_name.path = "None" THEN [exc |-> "ValueError"]
    ELSE IF file_name.path = "missing" THEN [exc |-> "IOError"]
    ELSE IF Len(file_name.lines) = 0 THEN [exc |-> "TypeError"]
    ELSE IF \E i \in 1..Len(file_name.lines) :
               ~AllNumbers(SplitOnSpace(file_name.lines[i]))
    THEN [exc |-> "ValueError"]
    ELSE [exc |-> "none",
          store |-> StoreOf([i \in 1..Len(file_name.lines) |->
                                SplitOnSpace(file_name.lines[i])])]

\* the line of a node and its vector, written with the separator sep
Line(word, vector, sep) ==
    [sep |-> sep, words |-> <<word>> \o [i \in 1..Len(vector) |-> str(vector[i])]]

\* the embedding files of the model: one line per stored node
EmbeddingFiles ==
    {File(<<Line("A", a, " "), Line("B", b, " "), Line("N", <<1, 1>>, " ")>>) :
        a \in Vectors, b \in Vectors}

\* the file of Scenario A: A = [1,0], B = [0,1]
ScenarioFile ==
    File(<<Line("A", <<1, 0>>, " "), Line("B", <<0, 1>>, " "),
           Line("N", <<1, 1>>, " ")>>)

\* the same rows with a tab between the fields
TabSeparatedFile ==
    File(<<Line("A", <<1, 0>>, "\t"), Line("B", <<0, 1>>, "\t"),
           Line("N", <<1, 1>>, "\t")>>)

----------------------------------------------------------------------------
(* create_edge_embeddings *)

\* emb1 - emb2: Python defines no subtraction of two lists (TypeError);
\* on numpy arrays it is the elementwise difference
Subtract(emb1, emb2) ==
    IF emb1.kind = "list" /\ emb2.kind = "list"
    THEN [exc |-> "TypeError"]
    ELSE [exc |-> "none",
          v |-> [i \in DOMAIN emb1.v |-> emb1.v[i] - emb2.v[i]]]

\* abs(d) and np.power(d, 2) of a difference d, if there is one
AbsOf(d) ==
    IF d.exc # "none" THEN [exc |-> d.exc]
    ELSE [exc |-> "none", v |-> [i \in DOMAIN d.v |-> Rat(Abs(d.v[i]), 1)]]

SquareOf(d) ==
    IF d.exc # "none" THEN [exc |-> d.exc]
    ELSE [exc |-> "none", v |-> [i \in DOMAIN d.v |-> Rat(d.v[i] * d.v[i], 1)]]

\* the branch of the operator chain taken for one edge: the edge vector, or
\* the exception / exit that ends the call
EdgeEmbedding(method, emb1, emb2) ==
    CASE method = "hadamard" ->
            [exc |-> "none",
             v |-> [i \in DOMAIN emb1.v |-> Rat(emb1.v[i] * emb2.v[i], 1)]]
      [] method = "average" ->
            [exc |-> "none",
             v |-> [i \in DOMAIN emb1.v |-> Rat(emb1.v[i] + emb2.v[i], 2)]]
      [] method = "weightedL1" -> AbsOf(Subtract(emb1, emb2))
      [] method = "weightedL2" -> SquareOf(Subtract(emb1, emb2))
      [] OTHER -> [exc |-> "SystemExit"]

\* what one iteration appends to src_embs, dst_embs and edge_embs, given
\* the edge vector e (or the exception computing it raised)
Appended(emb1, emb2, e) ==
    IF e.exc # "none" THEN [exc |-> e.exc]
    ELSE [exc |-> "none", src |-> emb1.v, dst |-> emb2.v, edge |-> e.v]

\* one iteration of the loop over edge_list: both lookups, then the operator
EmbedEdge(edge, node2vector_map, method) ==
    IF edge[1] \notin DOMAIN node2vector_map \/ edge[2] \notin DOMAIN node2vector_map
    THEN [exc |-> "KeyError"]
    ELSE Appended(node2vector_map[edge[1]], node2vector_map[edge[2]],
                  EdgeEmbedding(method, node2vector_map[edge[1]],
                                node2vector_map[edge[2]]))

\* Collect with the iterations that raise skipped instead of ending the call
Returned(x) == x.exc = "none"
Collect_SkipFailed(r) ==
    [exc |-> "none",
     src_embs  |-> [i \in DOMAIN SelectSeq(r, Returned) |-> SelectSeq(r, Returned)[i].src],
     dst_embs  |-> [i \in DOMAIN SelectSeq(r, Returned) |-> SelectSeq(r, Returned)[i].dst],
     edge_embs |-> [i \in DOMAIN SelectSeq(r, Returned) |-> SelectSeq(r, Returned)[i].edge]]

\* the outcome of the loop whose iteration i gives r[i]: the iterations run
\* in order and the first one that raises ends the call with its
\* exception; otherwise row i of each array is what iteration i appended
Collect(r) ==
    IF \E i \in DOMAIN r : r[i].exc # "none"
    THEN [exc |-> r[CHOOSE i \in DOMAIN r :
                      /\ r[i].exc # "none"
                      /\ \A j \in 1..(i-1) : r[j].exc = "none"].exc]
    ELSE [exc |-> "none",
          src_embs  |-> [i \in DOMAIN r |-> r[i].src],
          dst_embs  |-> [i \in DOMAIN r |-> r[i].dst],
          edge_embs |-> [i \in DOMAIN r |-> r[i].edge]]

\* create_edge_embeddings(edge_list, node2vector_map) with
\* self.edge_embedding_method = method: the three arrays, or the exception
create_edge_embeddings(edges, node2vector_map, method) ==
    Collect([i \in 1..Len(edges) |-> EmbedEdge(edges[i], node2vector_map, method)])

----------------------------------------------------------------------------
(* LinkPrediction.__init__ *)

\* the attributes __init__ assigns.  The *_src_embs, *_dst_embs and
\* valid_labels attributes do not exist until prepare_edge_and_node_labels
\* creates them.
InitObject(pos_train, pos_valid, pos_test, neg_train, neg_valid, neg_test, file, method, clf, use_valid) ==
    [pos_train_edges |-> pos_train,
     pos_test_edges  |-> pos_test,
     pos_valid_edges |-> pos_valid,
     neg_train_edges |-> neg_train,
     neg_valid_edges |-> neg_valid,
     neg_test_edges  |-> neg_test,
     embedded_train_graph |-> file,
     map_node_vector |-> load_embeddings(file).store,
     edge_embedding_method |-> method,
     train_edge_embs |-> EmptyList,
     test_edge_embs  |-> EmptyList,
     train_labels    |-> EmptyList,
     test_labels     |-> EmptyList,
     classifier      |-> clf,
     train_predictions      |-> EmptyList,
     validation_predictions |-> EmptyList,
     test_predictions       |-> EmptyList,
     train_confusion_matrix      |-> EmptyList,
     test_confusion_matrix       |-> EmptyList,
     validation_confusion_matrix |-> EmptyList,
     valid_edge_embs |-> None,
     train_roc |-> None,
     valid_roc |-> None,
     train_average_precision |-> None,
     valid_average_precision |-> None,
     test_roc |-> None,
     test_average_precision |-> None,
     use_validation |-> use_valid,
     train_src_embs |-> Unset,
     train_dst_embs |-> Unset,
     test_src_embs  |-> Unset,
     test_dst_embs  |-> Unset,
     valid_src_embs |-> Unset,
     valid_dst_embs |-> Unset,
     valid_labels   |-> Unset]

\* main's arguments (and the embedding its model learned), and its local
\* variables before main assigns them
InitLocals(args) ==
    [args |-> args,
     X_train |-> Unset, y_train |-> Unset,
     X_test  |-> Unset, y_test  |-> Unset,
     X_valid |-> Unset, y_valid |-> Unset,
     y_train_pred |-> Unset, y_test_pred |-> Unset, y_valid_pred |-> Unset,
     report |-> Unset]

----------------------------------------------------------------------------
(* prepare_edge_and_node_labels *)

\* Concatenate that joins whatever rows there are
Concatenate_Flat(a, b) == [exc |-> "none", v |-> a \o b]

\* np.concatenate([a, b]) of two arrays built by np.array from lists of
\* rows: an empty list gives shape (0,), a non-empty one shape (n, D), and
\* numpy refuses to concatenate arrays of different numbers of dimensions
Concatenate(a, b) ==
    IF (Len(a) = 0) # (Len(b) = 0)
    THEN [exc |-> "ValueError"]
    ELSE [exc |-> "none", v |-> a \o b]

\* Labels with the zeros of the negatives put first
Labels_NegativesFirst(pos_edge_embs, neg_edge_embs) ==
    Repeat(0, Len(neg_edge_embs)) \o Repeat(1, Len(pos_edge_embs))

\* np.concatenate([np.ones(len(pos)), np.zeros(len(neg))])
Labels(pos_edge_embs, neg_edge_embs) ==
    Repeat(1, Len(pos_edge_embs)) \o Repeat(0, Len(neg_edge_embs))

\* the arrays of a partition from its three concatenations
Stacked(src, dst, edge, labels) ==
    IF src.exc # "none" THEN [exc |-> src.exc, ncalls |-> 2]
    ELSE IF dst.exc # "none" THEN [exc |-> dst.exc, ncalls |-> 2]
    ELSE IF edge.exc # "none" THEN [exc |-> edge.exc, ncalls |-> 2]
    ELSE [exc |-> "none", ncalls |-> 2,
          src_embs |-> src.v, dst_embs |-> dst.v, edge_embs |-> edge.v,
          labels |-> labels]

\* the partition from what the builder returned for its positive (pos) and
\* its negative (neg) edge list; the negative list is only handed to the
\* builder if the positive call returned.  ncalls is the number of builder
\* calls made before the partition was assembled or an exception ended it.
Joined(pos, neg) ==
    IF pos.exc # "none" THEN [exc |-> pos.exc, ncalls |-> 1]
    ELSE IF neg.exc # "none" THEN [exc |-> neg.exc, ncalls |-> 2]
    ELSE Stacked(Concatenate(pos.src_embs, neg.src_embs),
                 Concatenate(pos.dst_embs, neg.dst_embs),
                 Concatenate(pos.edge_embs, neg.edge_embs),
                 Labels(pos.edge_embs, neg.edge_embs))

\* One partition of prepare_edge_and_node_labels: the two builder calls, the
\* three concatenations and the labels
Assemble(pos_edges, neg_edges, node2vector_map, method) ==
    Joined(create_edge_embeddings(pos_edges, node2vector_map, method),
           create_edge_embeddings(neg_edges, node2vector_map, method))

\* the names of the edge lists a partition hands to the builder
BuiltBy(a, pos_name, neg_name) ==
    IF a.ncalls = 1 THEN {pos_name} ELSE {pos_name, neg_name}

WithTrain(o, a) ==
    [o EXCEPT !.train_src_embs = Nd(a.src_embs), !.train_dst_embs = Nd(a.dst_embs),
              !.train_edge_embs = Nd(a.edge_embs), !.train_labels = Nd(a.labels)]

WithTest(o, a) ==
    [o EXCEPT !.test_src_embs = Nd(a.src_embs), !.test_dst_embs = Nd(a.dst_embs),
              !.test_edge_embs = Nd(a.edge_embs), !.test_labels = Nd(a.labels)]

WithValid(o, a) ==
    [o EXCEPT !.valid_src_embs = Nd(a.src_embs), !.valid_dst_embs = Nd(a.dst_embs),
              !.valid_edge_embs = Nd(a.edge_embs), !.valid_labels = Nd(a.labels)]

\* whether the validation partition is processed
UseValidation(o) == o.use_validation

\* the three partitions in source order: train, then test, then (if
\* use_validation) validation; an exception leaves the attributes assigned
\* so far and the later partitions untouched
Staged(o, tr, te, va) ==
    IF tr.exc # "none"
    THEN [exc |-> tr.exc, obj |-> o,
          built |-> BuiltBy(tr, "pos_train_edges", "neg_train_edges")]
    ELSE IF te.exc # "none"
    THEN [exc |-> te.exc, obj |-> WithTrain(o, tr),
          built |-> {"pos_train_edges", "neg_train_edges"}
                    \cup BuiltBy(te, "pos_test_edges", "neg_test_edges")]
    ELSE IF ~UseValidation(o)
    THEN [exc |-> "none", obj |-> WithTest(WithTrain(o, tr), te),
          built |-> {"pos_train_edges", "neg_train_edges",
                     "pos_test_edges", "neg_test_edges"}]
    ELSE IF va.exc # "none"
    THEN [exc |-> va.exc, obj |-> WithTest(WithTrain(o, tr), te),
          built |-> {"pos_train_edges", "neg_train_edges",
                     "pos_test_edges", "neg_test_edges"}
                    \cup BuiltBy(va, "pos_valid_edges", "neg_valid_edges")]
    ELSE [exc |-> "none",
          obj |-> WithValid(WithTest(WithTrain(o, tr), te), va),
          built |-> {"pos_train_edges", "neg_train_edges",
                     "pos_test_edges", "neg_test_edges",
                     "pos_valid_edges", "neg_valid_edges"}]

\* prepare_edge_and_node_labels on the object o
PrepareResult(o) ==
    Staged(o,
           Assemble(o.pos_train_edges, o.neg_train_edges,
                    o.map_node_vector, o.edge_embedding_method),
           Assemble(o.pos_test_edges, o.neg_test_edges,
                    o.map_node_vector, o.edge_embedding_method),
           Assemble(o.pos_valid_edges, o.neg_valid_edges,
                    o.map_node_vector, o.edge_embedding_method))

\* line 432: the error logged before sys.exit(1)
ExitLog(exc) ==
    IF exc = "SystemExit"
    THEN {"Enter hadamard, average, weightedL1, weightedL2"}
    ELSE {}

\* the outcome r of an operation on the object
Finish(r) ==
    /\ self' = r.obj
    /\ error' = r.exc
    /\ status' = IF r.exc = "none" THEN "running" ELSE "aborted"

\* read_embeddings: the file of the constructor is read again, its lines
\* split on any whitespace, and the map built from them is bound to
\* self.map_node_vector after the loop (a float() that raises ends the call
\* before that)
ReadResult(o) ==
    IF \E i \in 1..Len(o.embedded_train_graph.lines) :
          ~AllNumbers(SplitOnWhitespace(o.embedded_train_graph.lines[i]))
    THEN [exc |-> "ValueError", obj |-> o]
    ELSE [exc |-> "none",
          obj |-> [o EXCEPT !.map_node_vector =
                      StoreOf([i \in 1..Len(o.embedded_train_graph.lines) |->
                                  SplitOnWhitespace(o.embedded_train_graph.lines[i])])]]

read_embeddings ==
    /\ entry = "LinkPrediction"
    /\ status = "running"
    /\ \E r \in {ReadResult(self)} :
          /\ Finish(r)
          /\ log' = log \cup (IF r.exc = "none" THEN {"Finished ingesting"} ELSE {})
    /\ UNCHANGED <<locals, entry, calls, built, emitted, edge_list, ret>>

prepare_edge_and_node_labels ==
    /\ entry = "LinkPrediction"
    /\ status = "running"
    /\ \E r \in {PrepareResult(self)} :
          /\ Finish(r)
          /\ built' = built \cup r.built
          /\ log' = log \cup ExitLog(r.exc)
    /\ UNCHANGED <<locals, entry, calls, emitted, edge_list, ret>>

----------------------------------------------------------------------------
(* The classifier backends (sklearn, embiggen.neural_networks): external.   *)
(* A fitted classifier is a function of the feature row: predict gives a    *)
(* hard label, predict_proba[:, 1] a score.  Which function fit produces is *)
(* not decided by this code, so fit chooses one.  Every backend rejects an  *)
(* array without rows (ValueError), and fit may fail numerically.           *)

\* predicted probabilities of class 1, in percent
ScoreLevels == {25, 75}

\* SelectClassifier with the random forest branch constructing the linear
\* backend and the fallback logging nothing
SelectClassifier_Silent(name) ==
    CASE name = "LR"   -> [backend |-> "LogisticRegression", notice |-> FALSE]
      [] name = "RF"   -> [backend |-> "LogisticRegression", notice |-> FALSE]
      [] name = "MLP"  -> [backend |-> "MLP", notice |-> FALSE]
      [] name = "FFNN" -> [backend |-> "FFNN", notice |-> FALSE]
      [] name = "MultiModalFFNN" -> [backend |-> "MultiModalFFNN", notice |-> FALSE]
      [] OTHER -> [backend |-> "CalibratedClassifierCV(LinearSVC)", notice |-> FALSE]

\* the backend predict_links constructs for a classifier name, and whether
\* it logs "Using SVM (default) classifier for link prediction"
SelectClassifier(name) ==
    CASE name = "LR"   -> [backend |-> "LogisticRegression", notice |-> FALSE]
      [] name = "RF"   -> [backend |-> "RandomForestClassifier", notice |-> FALSE]
      [] name = "MLP"  -> [backend |-> "MLP", notice |-> FALSE]
      [] name = "FFNN" -> [backend |-> "FFNN", notice |-> FALSE]
      [] name = "MultiModalFFNN" -> [backend |-> "MultiModalFFNN", notice |-> FALSE]
      [] OTHER -> [backend |-> "CalibratedClassifierCV(LinearSVC)", notice |-> TRUE]

\* an array attribute that holds a numpy array with at least one row
HasRows(a) == a.kind = "ndarray" /\ Len(a.v) > 0

\* the rows a classifier call sees: the edge vectors, or for the
\* multi-modal network the (source, destination) pairs
Features(edge_embs, src_embs, dst_embs, mm) ==
    IF mm THEN [i \in 1..Len(src_embs) |-> <<src_embs[i], dst_embs[i]>>]
    ELSE edge_embs

\* the rows of an array
RowsOf(X) == {X[i] : i \in 1..Len(X)}

\* classifier.predict(X) / predict_proba(X)[:, 1] of the fitted function f
Apply(f, X) == [i \in 1..Len(X) |-> f[X[i]]]

\* sklearn.metrics.confusion_matrix(y_true, y_pred): one row and one column
\* per label that occurs in y_true or y_pred, in sorted order
RECURSIVE SortedSeq(_)
SortedSeq(S) ==
    IF S = {} THEN <<>>
    ELSE LET m == CHOOSE x \in S : \A y \in S : x <= y
         IN  <<m>> \o SortedSeq(S \ {m})

\* confusion_matrix counting only the examples predicted correctly
confusion_matrix_Diagonal(y_true, y_pred) ==
    LET labs == SortedSeq(RowsOf(y_true) \cup RowsOf(y_pred))
    IN  [i \in 1..Len(labs) |->
            [j \in 1..Len(labs) |->
                IF i # j THEN 0
                ELSE Cardinality({k \in 1..Len(y_true) :
                                     y_true[k] = labs[i] /\ y_pred[k] = labs[j]})]]

confusion_matrix(y_true, y_pred) ==
    LET labs == SortedSeq(RowsOf(y_true) \cup RowsOf(y_pred))
    IN  [i \in 1..Len(labs) |->
            [j \in 1..Len(labs) |->
                Cardinality({k \in 1..Len(y_true) :
                                y_true[k] = labs[i] /\ y_pred[k] = labs[j]})]]

\* roc_auc_score(y_true, y_score): undefined (ValueError) unless both
\* classes occur in y_true; its value is kept as the call that computes it
roc_auc_score(y_true, y_score) ==
    IF RowsOf(y_true) # {0, 1} THEN [exc |-> "ValueError"]
    ELSE [exc |-> "none",
          v |-> [metric |-> "roc_auc_score", y_true |-> y_true, y_score |-> y_score]]

\* average_precision_score(y_true, y_score)
average_precision_score(y_true, y_score) ==
    [metric |-> "average_precision_score", y_true |-> y_true, y_score |-> y_score]

----------------------------------------------------------------------------
(* predict_links *)

IsMultiModal(o) == o.classifier = "MultiModalFFNN"

\* the feature rows of the three partitions as predict_links passes them
TrainX(o) == Features(o.train_edge_embs.v, o.train_src_embs.v,
                      o.train_dst_embs.v, IsMultiModal(o))
TestX(o)  == Features(o.test_edge_embs.v, o.test_src_embs.v,
                      o.test_dst_embs.v, IsMultiModal(o))
ValidX(o) == Features(o.valid_edge_embs.v, o.valid_src_embs.v,
                      o.valid_dst_embs.v, IsMultiModal(o))

\* the rows present in the object's arrays: the domain of a fitted function
PresentRows(o) ==
    IF ~HasRows(o.train_edge_embs) THEN {}
    ELSE RowsOf(TrainX(o))
         \cup (IF HasRows(o.test_edge_embs) THEN RowsOf(TestX(o)) ELSE {})
         \cup (IF HasRows(o.valid_edge_embs) THEN RowsOf(ValidX(o)) ELSE {})

\* the attributes a call passes, by name
FitArgs(o) ==
    IF IsMultiModal(o) THEN <<"train_src_embs", "train_dst_embs", "train_labels">>
    ELSE <<"train_edge_embs", "train_labels">>

XArgs(o, part) ==
    IF IsMultiModal(o) THEN <<part \o "_src_embs", part \o "_dst_embs">>
    ELSE <<part \o "_edge_embs">>

Call(op, args) == [op |-> op, args |-> args]

\* the constructor argument of the neural backends reads the shape of a
\* train array: a list has no shape, a missing attribute cannot be read
ConstructorRaises(o) ==
    \/ o.classifier \in {"MLP", "FFNN"} /\ o.train_edge_embs.kind = "list"
    \/ IsMultiModal(o) /\ o.train_src_embs.kind = "unset"

\* CallsToFit with the classifier fitted a second time
CallsToFit_Refit(o) ==
    <<Call("create", <<SelectClassifier(o.classifier).backend>>),
      Call("fit", FitArgs(o)), Call("fit", FitArgs(o))>>

\* the calls of predict_links up to and including the fit
CallsToFit(o) ==
    <<Call("create", <<SelectClassifier(o.classifier).backend>>),
      Call("fit", FitArgs(o))>>

\* the predict calls that follow the fit: train, test, then validation
PredictCalls(o, n) ==
    SubSeq(<<Call("predict", XArgs(o, "train")),
             Call("predict", XArgs(o, "test")),
             Call("predict", XArgs(o, "valid"))>>, 1, n)

\* the predict_proba calls that follow the predicts
ProbaCalls(o) ==
    <<Call("predict_proba", XArgs(o, "train")),
      Call("predict_proba", XArgs(o, "test"))>>
    \o (IF UseValidation(o) THEN <<Call("predict_proba", XArgs(o, "valid"))>>
        ELSE <<>>)

\* the calls of a predict_links that reaches the metrics
AllCalls(o) ==
    CallsToFit(o) \o PredictCalls(o, IF UseValidation(o) THEN 3 ELSE 2)
    \o ProbaCalls(o)

\* lines 274-277: the train and test confusion matrices
TrainTestConfusion(o) ==
    [o EXCEPT
       !.train_confusion_matrix =
           Nd(confusion_matrix(o.train_labels.v, o.train_predictions.v)),
       !.test_confusion_matrix =
           Nd(confusion_matrix(o.test_labels.v, o.test_predictions.v))]

\* lines 279-282: the train and test ranking scores
TrainTestScores(o, tr, te, train_preds, test_preds) ==
    [o EXCEPT
       !.train_roc = Value(tr.v),
       !.test_roc = Value(te.v),
       !.train_average_precision =
           Value(average_precision_score(o.train_labels.v, train_preds)),
       !.test_average_precision =
           Value(average_precision_score(o.test_labels.v, test_preds))]

\* lines 285-286: the validation confusion matrix
ValidationConfusion(o) ==
    [o EXCEPT
       !.validation_confusion_matrix =
           Nd(confusion_matrix(o.valid_labels.v, o.validation_predictions.v))]

\* lines 287-288: the validation ranking scores
ValidationScores(o, va, validation_preds) ==
    [o EXCEPT
       !.valid_roc = Value(va.v),
       !.valid_average_precision =
           Value(average_precision_score(o.valid_labels.v, validation_preds))]

\* lines 279-288 in source order, tr, te and va being what roc_auc_score
\* gives for the three partitions; a roc_auc_score that raises leaves the
\* later attributes unassigned
Ranked(o, tr, te, va, train_preds, test_preds, validation_preds) ==
    IF tr.exc # "none" THEN [exc |-> tr.exc, obj |-> o]
    ELSE IF te.exc # "none"
    THEN [exc |-> te.exc, obj |-> [o EXCEPT !.train_roc = Value(tr.v)]]
    ELSE IF ~UseValidation(o)
    THEN [exc |-> "none",
          obj |-> TrainTestScores(o, tr, te, train_preds, test_preds)]
    ELSE IF va.exc # "none"
    THEN [exc |-> va.exc,
          obj |-> ValidationConfusion(
                      TrainTestScores(o, tr, te, train_preds, test_preds))]
    ELSE [exc |-> "none",
          obj |-> ValidationScores(
                      ValidationConfusion(
                          TrainTestScores(o, tr, te, train_preds, test_preds)),
                      va, validation_preds)]

\* lines 274-288: the confusion matrices and ranking scores
Metrics(o, train_preds, test_preds, validation_preds) ==
    Ranked(TrainTestConfusion(o),
           roc_auc_score(o.train_labels.v, train_preds),
           roc_auc_score(o.test_labels.v, test_preds),
           roc_auc_score(o.valid_labels.v, validation_preds),
           train_preds, test_preds, validation_preds)

\* the predictions predict_links stores: of train, of test and (if
\* use_validation) of validation, by the fitted function h
WithTrainPredictions(o, h) ==
    [o EXCEPT !.train_predictions = Nd(Apply(h, TrainX(o)))]

WithTestPredictions(o, h) ==
    [o EXCEPT !.test_predictions = Nd(Apply(h, TestX(o)))]

WithValidationPredictions(o, h) ==
    IF UseValidation(o)
    THEN [o EXCEPT !.validation_predictions = Nd(Apply(h, ValidX(o)))]
    ELSE o

\* the scores predict_proba gives for the validation rows, if it is asked
ValidationScoresOf(o, p) ==
    IF UseValidation(o) THEN Apply(p, ValidX(o)) ELSE <<>>

Outcome(m, c) == [exc |-> m.exc, obj |-> m.obj, calls |-> c]

\* predict_links with the outcome of the external fit: fit_ok, and the
\* fitted functions h (hard label) and p (score) of the feature row
PredictResult(o, fit_ok, h, p) ==
    IF ConstructorRaises(o)
    THEN [exc |-> "AttributeError", obj |-> o, calls |-> <<>>]
    ELSE IF ~HasRows(o.train_edge_embs)
    THEN [exc |-> "ValueError", obj |-> o, calls |-> CallsToFit(o)]
    ELSE IF ~fit_ok
    THEN [exc |-> "FitError", obj |-> o, calls |-> CallsToFit(o)]
    ELSE IF ~HasRows(o.test_edge_embs)
    THEN [exc |-> "ValueError", obj |-> WithTrainPredictions(o, h),
          calls |-> CallsToFit(o) \o PredictCalls(o, 2)]
    ELSE IF UseValidation(o) /\ ~HasRows(o.valid_edge_embs)
    THEN [exc |-> "ValueError",
          obj |-> WithTestPredictions(WithTrainPredictions(o, h), h),
          calls |-> CallsToFit(o) \o PredictCalls(o, 3)]
    ELSE Outcome(Metrics(WithValidationPredictions(
                             WithTestPredictions(WithTrainPredictions(o, h), h), h),
                         Apply(p, TrainX(o)), Apply(p, TestX(o)),
                         ValidationScoresOf(o, p)),
                 AllCalls(o))

\* what predict_links logs
PredictLog(o) ==
    IF ~ConstructorRaises(o) /\ SelectClassifier(o.classifier).notice
    THEN {"Using SVM (default) classifier for link prediction"}
    ELSE {}

\* One predict_links per object is explored: a second call constructs a new
\* classifier and assigns the same attributes again, so it reaches no object
\* that a first call cannot reach.
predict_links ==
    /\ entry = "LinkPrediction"
    /\ status = "running"
    /\ self.train_predictions.kind = "list"
    /\ \E fit_ok \in BOOLEAN :
       \E h \in [PresentRows(self) -> {0, 1}] :
       \E p \in [PresentRows(self) -> ScoreLevels] :
       \E r \in {PredictResult(self, fit_ok, h, p)} :
          /\ Finish(r)
          /\ calls' = r.calls
    /\ log' = log \cup PredictLog(self)
    /\ UNCHANGED <<locals, entry, built, emitted, edge_list, ret>>

----------------------------------------------------------------------------
(* predicted_ppi_links and predicted_ppi_non_links *)

\* the text logging writes for an edge and for a predicted label
EdgeText(edge) == "('" \o edge[1] \o "', '" \o edge[2] \o "')"
LabelText == <<"0", "1">>
PredictionLine(edge, prediction) ==
    "edge " \o EdgeText(edge) \o " prediction " \o LabelText[prediction + 1]

\* Listing with every edge paired with the prediction of row i, whatever
\* the offset
Listing_NoOffset(header, edges, predictions, offset) ==
    [exc |-> IF Len(edges) > Len(predictions.v) THEN "IndexError" ELSE "none",
     log |-> {header} \cup {PredictionLine(edges[i], predictions.v[i]) :
                               i \in {k \in 1..Len(edges) : k <= Len(predictions.v)}}]

\* one loop of the two methods: the header, then for i = 0, 1, ... the line
\* of edges[i] and predictions[i + offset]; the first index out of the
\* range of the predictions raises IndexError after the earlier lines
Listing(header, edges, predictions, offset) ==
    [exc |-> IF Len(edges) + offset > Len(predictions.v) THEN "IndexError" ELSE "none",
     log |-> {header} \cup {PredictionLine(edges[i], predictions.v[i + offset]) :
                               i \in {k \in 1..Len(edges) : k + offset <= Len(predictions.v)}}]

\* the test loop, then the validation loop if use_validation
Listings(o, te, va) ==
    IF te.exc # "none" \/ ~UseValidation(o) THEN te
    ELSE [exc |-> va.exc, log |-> te.log \cup va.log]

PredictedLinks(o) ==
    Listings(o,
             Listing("positive test edges and their prediction:",
                     o.pos_test_edges, o.test_predictions, 0),
             Listing("positive validation edges and their prediction:",
                     o.pos_valid_edges, o.validation_predictions, 0))

PredictedNonLinks(o) ==
    Listings(o,
             Listing("negative test edges and their prediction:",
                     o.neg_test_edges, o.test_predictions, Len(o.pos_test_edges)),
             Listing("negative validation edges and their prediction:",
                     o.neg_valid_edges, o.validation_predictions,
                     Len(o.pos_valid_edges)))

predicted_ppi_links ==
    /\ entry = "LinkPrediction"
    /\ status = "running"
    /\ \E r \in {PredictedLinks(self)} :
          /\ log' = log \cup r.log
          /\ error' = r.exc
          /\ status' = IF r.exc = "none" THEN "running" ELSE "aborted"
    /\ UNCHANGED <<self, locals, entry, calls, built, emitted, edge_list, ret>>

predicted_ppi_non_links ==
    /\ entry = "LinkPrediction"
    /\ status = "running"
    /\ \E r \in {PredictedNonLinks(self)} :
          /\ log' = log \cup r.log
          /\ error' = r.exc
          /\ status' = IF r.exc = "none" THEN "running" ELSE "aborted"
    /\ UNCHANGED <<self, locals, entry, calls, built, emitted, edge_list, ret>>

----------------------------------------------------------------------------
(* output_classifier_results *)

\* numpy's integer division a / b: a float; a zero denominator gives nan or
\* inf with a warning, not an exception
Ratio(a, b) ==
    IF b = 0 THEN (IF a = 0 THEN "nan" ELSE "inf") ELSE Rat(a, b)

\* DerivedMetrics with specificity and sensitivity read from each other's row
DerivedMetrics_Swapped(matrix) ==
    IF matrix.kind = "list" THEN [exc |-> "TypeError"]
    ELSE IF Len(matrix.v) < 2 THEN [exc |-> "IndexError"]
    ELSE [exc |-> "none",
          confusion_matrix |-> matrix.v,
          accuracy    |-> Ratio(matrix.v[1][1] + matrix.v[2][2],
                                matrix.v[1][1] + matrix.v[1][2]
                                + matrix.v[2][1] + matrix.v[2][2]),
          specificity |-> Ratio(matrix.v[2][2], matrix.v[2][1] + matrix.v[2][2]),
          sensitivity |-> Ratio(matrix.v[1][1], matrix.v[1][1] + matrix.v[1][2]),
          f1_score    |-> Ratio(2 * matrix.v[2][2],
                                2 * matrix.v[2][2] + matrix.v[1][2] + matrix.v[2][1])]

\* the four derived metrics of one confusion matrix, or the exception its
\* indexing raises: sum(sum([])) of the initial list is a TypeError, a
\* matrix with fewer than two labels has no cell [1, 1] (IndexError).
\* Python indices [0,0], [0,1], [1,0], [1,1] are cells [1][1] .. [2][2].
DerivedMetrics(matrix) ==
    IF matrix.kind = "list" THEN [exc |-> "TypeError"]
    ELSE IF Len(matrix.v) < 2 THEN [exc |-> "IndexError"]
    ELSE LET cm == matrix.v
             total == cm[1][1] + cm[1][2] + cm[2][1] + cm[2][2]
         IN  [exc |-> "none",
              confusion_matrix |-> cm,
              accuracy    |-> Ratio(cm[1][1] + cm[2][2], total),
              specificity |-> Ratio(cm[1][1], cm[1][1] + cm[1][2]),
              sensitivity |-> Ratio(cm[2][2], cm[2][1] + cm[2][2]),
              f1_score    |-> Ratio(2 * cm[2][2],
                                    2 * cm[2][2] + cm[1][2] + cm[2][1])]

\* the block of log lines of one partition
Block(name, d, roc, ap) ==
    [partition |-> name,
     confusion_matrix |-> d.confusion_matrix,
     accuracy |-> d.accuracy, specificity |-> d.specificity,
     sensitivity |-> d.sensitivity, f1_score |-> d.f1_score,
     roc |-> roc, ap |-> ap]

\* the blocks logged, tr, va and te being the derived metrics of the three
\* partitions: the training block, the validation block if use_validation,
\* the test block; a block is logged as soon as its metrics are computed,
\* so an exception leaves the earlier blocks logged
Blocks(o, tr, va, te) ==
    IF tr.exc # "none" THEN [exc |-> tr.exc, log |-> <<>>]
    ELSE IF UseValidation(o) /\ va.exc # "none"
    THEN [exc |-> va.exc,
          log |-> <<Block("training", tr, o.train_roc, o.train_average_precision)>>]
    ELSE IF te.exc # "none"
    THEN [exc |-> te.exc,
          log |-> <<Block("training", tr, o.train_roc, o.train_average_precision)>>
                  \o (IF UseValidation(o)
                      THEN <<Block("validation", va, o.valid_roc,
                                   o.valid_average_precision)>>
                      ELSE <<>>)]
    ELSE [exc |-> "none",
          log |-> <<Block("training", tr, o.train_roc, o.train_average_precision)>>
                  \o (IF UseValidation(o)
                      THEN <<Block("validation", va, o.valid_roc,
                                   o.valid_average_precision)>>
                      ELSE <<>>)
                  \o <<Block("test", te, o.test_roc, o.test_average_precision)>>]

\* OutputResult whose test matrix cannot be indexed
OutputResult_TestFails(o) ==
    Blocks(o, DerivedMetrics(o.train_confusion_matrix),
           DerivedMetrics(o.validation_confusion_matrix),
           [exc |-> "IndexError"])

OutputResult(o) ==
    Blocks(o, DerivedMetrics(o.train_confusion_matrix),
           DerivedMetrics(o.validation_confusion_matrix),
           DerivedMetrics(o.test_confusion_matrix))

output_classifier_results ==
    /\ entry = "LinkPrediction"
    /\ status = "running"
    /\ \E r \in {OutputResult(self)} :
          /\ emitted' = r.log
          /\ error' = r.exc
          /\ status' = IF r.exc = "none" THEN "running" ELSE "aborted"
    /\ UNCHANGED <<self, locals, entry, calls, built, log, edge_list, ret>>

----------------------------------------------------------------------------
(* runLinkPrediction_ppi.main *)

\* GraphPartitionTransfomer is not among the source files: its edge vector
\* is the operator of the specification (section 4.1) on two node vectors
TransformerEdgeVector(method, v1, v2) ==
    CASE method = "hadamard"   -> [i \in DOMAIN v1 |-> Rat(v1[i] * v2[i], 1)]
      [] method = "average"    -> [i \in DOMAIN v1 |-> Rat(v1[i] + v2[i], 2)]
      [] method = "weightedL1" -> [i \in DOMAIN v1 |-> Rat(Abs(v1[i] - v2[i]), 1)]
      [] method = "weightedL2" ->
            [i \in DOMAIN v1 |-> Rat((v1[i] - v2[i]) * (v1[i] - v2[i]), 1)]

\* GraphPartitionTransfomer(embedding, method): an unrecognised operator
\* name is a fatal configuration error (section 4.1)
GraphPartitionTransfomer(method) ==
    IF method \in KnownMethods THEN [exc |-> "none"]
    ELSE [exc |-> "ValueError(method)"]

\* transform_edges(pos, neg) of the specification (sections 4.1, 4.2): the
\* edge vectors of the positive edges, then of the negative ones, and the
\* labels 1.. then 0..; a node outside the embedding is a fatal lookup
\* failure
TransformAll(edges, npos, embedding, method) ==
    IF \E i \in 1..Len(edges) :
          edges[i][1] \notin DOMAIN embedding \/ edges[i][2] \notin DOMAIN embedding
    THEN [exc |-> "KeyError"]
    ELSE [exc |-> "none",
          X |-> [i \in 1..Len(edges) |->
                   TransformerEdgeVector(method, embedding[edges[i][1]].v,
                                         embedding[edges[i][2]].v)],
          y |-> Repeat(1, npos) \o Repeat(0, Len(edges) - npos)]

transform_edges(pos, neg, embedding, method) ==
    TransformAll(pos \o neg, Len(pos), embedding, method)

\* get_classifier_model(classifier): the model class, or ValueError
get_classifier_model(name) ==
    CASE name = "LR"   -> [exc |-> "none", backend |-> "LogisticRegression"]
      [] name = "RF"   -> [exc |-> "none", backend |-> "RandomForestClassifier"]
      [] name = "MLP"  -> [exc |-> "none", backend |-> "MLP"]
      [] name = "FFNN" -> [exc |-> "none", backend |-> "FFNN"]
      [] OTHER -> [exc |-> "ValueError"]

\* the arguments of main's fit call, by name (lines 304-307)
MainFitArgs(name) ==
    IF name \in {"MLP", "FFNN"}
    THEN <<"X_train", "y_train", "X_test", "y_test">>
    ELSE <<"X_train", "y_train">>

\* whether main transforms and predicts the validation partition: lines
\* 293, 311 and 316 do so unconditionally, args.skipValidation is only logged
MainUsesValidation(args) == TRUE

\* performance_report(y_true, y_pred): roc_auc_score, average_precision_score
\* and f1_score of (y_true, y_pred), accuracy of the rounded y_pred; the
\* values are kept as the calls that compute them
performance_report(y_true, y_pred) ==
    LET roc == roc_auc_score(y_true, y_pred)
    IN  IF roc.exc # "none" THEN [exc |-> roc.exc]
        ELSE [exc |-> "none",
              v |-> [roc |-> roc.v,
                     ap  |-> average_precision_score(y_true, y_pred),
                     f1  |-> [metric |-> "f1_score", y_true |-> y_true,
                              y_pred |-> y_pred],
                     accuracy |-> [metric |-> "accuracy_score",
                                   y_true |-> y_true, y_pred |-> y_pred]]]

\* the rows of a transformed partition
XRows(method, t) ==
    IF GraphPartitionTransfomer(method).exc = "none" /\ t.exc = "none"
    THEN RowsOf(t.X) ELSE {}

\* the rows main's classifier can be asked about
MainRows(a) ==
    XRows(a.edge_embed_method,
          transform_edges(a.pos_train, a.neg_train, a.embedding, a.edge_embed_method))
    \cup XRows(a.edge_embed_method,
          transform_edges(a.pos_test, a.neg_test, a.embedding, a.edge_embed_method))
    \cup XRows(a.edge_embed_method,
          transform_edges(a.pos_valid, a.neg_valid, a.embedding, a.edge_embed_method))

\* lines 291-293: main's locals after the first n transform_edges calls
Transformed(l, tr, te, va, n) ==
    [l EXCEPT
       !.X_train = Nd(tr.X), !.y_train = Nd(tr.y),
       !.X_test  = IF n >= 2 THEN Nd(te.X) ELSE @,
       !.y_test  = IF n >= 2 THEN Nd(te.y) ELSE @,
       !.X_valid = IF n >= 3 /\ MainUsesValidation(l.args) THEN Nd(va.X) ELSE @,
       !.y_valid = IF n >= 3 /\ MainUsesValidation(l.args) THEN Nd(va.y) ELSE @]

\* lines 309-311: main's locals after the first n predict calls
Predicted(l, h, n) ==
    [l EXCEPT
       !.y_train_pred = Nd(Apply(h, l.X_train.v)),
       !.y_test_pred  = IF n >= 2 THEN Nd(Apply(h, l.X_test.v)) ELSE @,
       !.y_valid_pred = IF n >= 3 /\ MainUsesValidation(l.args)
                        THEN Nd(Apply(h, l.X_valid.v)) ELSE @]

\* the names of the edge lists transformed by the first n transform_edges
MainBuilt(a, n) ==
    {"pos_train_edges", "neg_train_edges"}
    \cup (IF n >= 2 THEN {"pos_test_edges", "neg_test_edges"} ELSE {})
    \cup (IF n >= 3 /\ MainUsesValidation(a)
          THEN {"pos_valid_edges", "neg_valid_edges"} ELSE {})

\* the calls on main's classifier: its creation, the fit and the first n
\* predicts
MainCalls(a, cm, n) ==
    <<Call("create", <<cm.backend>>), Call("fit", MainFitArgs(a.classifier))>>
    \o SubSeq(<<Call("predict", <<"X_train">>), Call("predict", <<"X_test">>)>>
              \o (IF MainUsesValidation(a) THEN <<Call("predict", <<"X_valid">>)>>
                  ELSE <<>>),
              1, n)

Out(exc, loc, b, c) == [exc |-> exc, locals |-> loc, built |-> b, calls |-> c]

\* lines 313-317: the report from the three performance reports (in the
\* order train, test, valid), l being main's locals after the predicts
Reported(l, rtr, rte, rva, b, c) ==
    IF rtr.exc # "none" THEN Out(rtr.exc, l, b, c)
    ELSE IF rte.exc # "none" THEN Out(rte.exc, l, b, c)
    ELSE IF MainUsesValidation(l.args) /\ rva.exc # "none" THEN Out(rva.exc, l, b, c)
    ELSE Out("none",
             [l EXCEPT !.report =
                IF MainUsesValidation(l.args)
                THEN Value([train |-> rtr.v, test |-> rte.v, valid |-> rva.v])
                ELSE Value([train |-> rtr.v, test |-> rte.v])],
             b, c)

\* lines 304-317, l being main's locals after the transforms and cm the
\* classifier model: the fit, the predicts, the report
Fitted(l, cm, fit_ok, h) ==
    IF Len(l.X_train.v) = 0
    THEN Out("ValueError", l, MainBuilt(l.args, 3), MainCalls(l.args, cm, 0))
    ELSE IF ~fit_ok
    THEN Out("FitError", l, MainBuilt(l.args, 3), MainCalls(l.args, cm, 0))
    ELSE IF Len(l.X_test.v) = 0
    THEN Out("ValueError", Predicted(l, h, 1), MainBuilt(l.args, 3),
             MainCalls(l.args, cm, 2))
    ELSE IF MainUsesValidation(l.args) /\ Len(l.X_valid.v) = 0
    THEN Out("ValueError", Predicted(l, h, 2), MainBuilt(l.args, 3),
             MainCalls(l.args, cm, 3))
    ELSE Reported(Predicted(l, h, 3),
                  performance_report(l.y_train.v, Apply(h, l.X_train.v)),
                  performance_report(l.y_test.v, Apply(h, l.X_test.v)),
                  performance_report(l.y_valid.v, Apply(h, l.X_valid.v)),
                  MainBuilt(l.args, 3), MainCalls(l.args, cm, 3))

\* lines 288-302: the transformer, the three transform_edges calls (tr, te
\* and va being what they return) and get_classifier_model
Staged_main(l, t, tr, te, va, cm, fit_ok, h) ==
    IF t.exc # "none" THEN Out(t.exc, l, {}, <<>>)
    ELSE IF tr.exc # "none" THEN Out(tr.exc, l, MainBuilt(l.args, 1), <<>>)
    ELSE IF te.exc # "none"
    THEN Out(te.exc, Transformed(l, tr, te, va, 1), MainBuilt(l.args, 2), <<>>)
    ELSE IF MainUsesValidation(l.args) /\ va.exc # "none"
    THEN Out(va.exc, Transformed(l, tr, te, va, 2), MainBuilt(l.args, 3), <<>>)
    ELSE IF cm.exc # "none"
    THEN Out("ValueError(classifier)", Transformed(l, tr, te, va, 3),
             MainBuilt(l.args, 3), <<>>)
    ELSE Fitted(Transformed(l, tr, te, va, 3), cm, fit_ok, h)

\* main from line 288 on, with the outcome of the external fit
MainResult(l, fit_ok, h) ==
    Staged_main(l, GraphPartitionTransfomer(l.args.edge_embed_method),
                transform_edges(l.args.pos_train, l.args.neg_train,
                                l.args.embedding, l.args.edge_embed_method),
                transform_edges(l.args.pos_test, l.args.neg_test,
                                l.args.embedding, l.args.edge_embed_method),
                transform_edges(l.args.pos_valid, l.args.neg_valid,
                                l.args.embedding, l.args.edge_embed_method),
                get_classifier_model(l.args.classifier), fit_ok, h)

main ==
    /\ entry = "main"
    /\ status = "running"
    /\ \E fit_ok \in BOOLEAN :
       \E h \in [MainRows(locals.args) -> {0, 1}] :
       \E r \in {MainResult(locals, fit_ok, h)} :
          /\ locals' = r.locals
          /\ calls' = r.calls
          /\ built' = r.built
          /\ error' = r.exc
          /\ status' = IF r.exc = "none" THEN "done" ELSE "aborted"
    /\ UNCHANGED <<self, entry, log, emitted, edge_list, ret>>

----------------------------------------------------------------------------
(* A direct call of create_edge_embeddings on the object's store *)

CallCreateEdgeEmbeddings ==
    /\ entry = "create_edge_embeddings"
    /\ status = "running"
    /\ ret.exc = "unset"
    /\ \E r \in {create_edge_embeddings(edge_list, self.map_node_vector,
                                        self.edge_embedding_method)} :
          /\ ret' = r
          /\ error' = r.exc
          /\ status' = IF r.exc = "none" THEN "running" ELSE "aborted"
          /\ log' = log \cup ExitLog(r.exc)
    /\ built' = built \cup {"edge_list"}
    /\ UNCHANGED <<self, locals, entry, calls, emitted, edge_list>>

----------------------------------------------------------------------------
(* Inputs *)

\* edges between stored nodes, and edges that name the missing node "C"
PosEdge1 == <<"A", "B">>
PosEdge2 == <<"B", "A">>
NegEdge1 == <<"A", "N">>
NegEdge2 == <<"B", "N">>
BadPosEdge == <<"A", "C">>
BadNegEdge == <<"C", "N">>

\* the positive and the negative edge list of a partition (disjoint, as the
\* graph split guarantees)
GoodPosEdges == [i \in 1..MaxLen |-> IF i % 2 = 1 THEN PosEdge1 ELSE PosEdge2]
BadPosEdges == [i \in 1..MaxLen |-> IF i = 1 THEN PosEdge1 ELSE BadPosEdge]
PosEdgeLists == {<<>>, GoodPosEdges, BadPosEdges}
GoodNegEdges == <<NegEdge1, NegEdge2>>
NegEdgeLists == {<<>>, GoodNegEdges, <<BadNegEdge>>}

\* the (positive, negative) edge lists of the validation partition
ValidEdgeLists ==
    {<< <<>>, <<>> >>, <<GoodPosEdges, GoodNegEdges>>,
     <<GoodPosEdges, <<BadNegEdge>> >>}

\* the edge lists of a direct call: every list of at most MaxLen edges
EdgePool == {PosEdge1, PosEdge2, NegEdge1, BadPosEdge}
RECURSIVE SeqsUpTo(_, _)
SeqsUpTo(S, n) ==
    IF n = 0 THEN {<<>>}
    ELSE LET shorter == SeqsUpTo(S, n - 1)
         IN  shorter \cup {Append(q, x) : q \in {t \in shorter : Len(t) = n - 1}, x \in S}

NoArgs ==
    [pos_train |-> <<>>, pos_valid |-> <<>>, pos_test |-> <<>>,
     neg_train |-> <<>>, neg_valid |-> <<>>, neg_test |-> <<>>,
     embedding |-> <<>>, edge_embed_method |-> "hadamard",
     classifier |-> "LR", skipValidation |-> FALSE]

Quiet ==
    /\ status = "running"
    /\ error = "none"
    /\ calls = <<>>
    /\ built = {}
    /\ log = {}
    /\ emitted = <<>>
    /\ ret = [exc |-> "unset"]

\* a LinkPrediction object right after construction
InitLinkPrediction ==
    /\ entry = "LinkPrediction"
    /\ \E pt \in PosEdgeLists, pe \in PosEdgeLists,
          nt \in NegEdgeLists, ne \in NegEdgeLists, v \in ValidEdgeLists,
          m \in Methods, c \in ClassifierNames, u \in BOOLEAN :
          self = InitObject(pt, v[1], pe, nt, v[2], ne, ScenarioFile, m, c, u)
    /\ locals = InitLocals(NoArgs)
    /\ edge_list = <<>>
    /\ Quiet

\* a LinkPrediction object constructed over the tab-separated file
InitTabSeparated ==
    /\ entry = "LinkPrediction"
    /\ \E m \in Methods, c \in ClassifierNames, u \in BOOLEAN :
          self = InitObject(GoodPosEdges, GoodPosEdges, GoodPosEdges,
                            GoodNegEdges, GoodNegEdges, GoodNegEdges,
                            TabSeparatedFile, m, c, u)
    /\ locals = InitLocals(NoArgs)
    /\ edge_list = <<>>
    /\ Quiet

\* main at line 288: the graphs are read and the embedding is trained
InitMain ==
    /\ entry = "main"
    /\ self = [kind |-> "None"]
    /\ \E pt \in PosEdgeLists, pe \in PosEdgeLists,
          nt \in NegEdgeLists, ne \in NegEdgeLists, v \in ValidEdgeLists,
          m \in Methods, c \in ClassifierNames, s \in BOOLEAN :
          locals = InitLocals(
              [pos_train |-> pt, pos_valid |-> v[1], pos_test |-> pe,
               neg_train |-> nt, neg_valid |-> v[2], neg_test |-> ne,
               embedding |-> load_embeddings(ScenarioFile).store,
               edge_embed_method |-> m, classifier |-> c, skipValidation |-> s])
    /\ edge_list = <<>>
    /\ Quiet

Init == InitLinkPrediction \/ InitTabSeparated \/ InitMain

Next ==
    \/ read_embeddings
    \/ prepare_edge_and_node_labels
    \/ predict_links
    \/ output_classifier_results
    \/ main

Spec == Init /\ [][Next]_vars

\* a LinkPrediction object over any embedding file, about to embed one list
InitEdge ==
    /\ entry = "create_edge_embeddings"
    /\ \E f \in EmbeddingFiles, m \in Methods :
          self = InitObject(<<>>, <<>>, <<>>, <<>>, <<>>, <<>>, f, m, "LR", FALSE)
    /\ locals = InitLocals(NoArgs)
    /\ edge_list \in SeqsUpTo(EdgePool, MaxLen)
    /\ Quiet

NextEdge == CallCreateEdgeEmbeddings

SpecEdge == InitEdge /\ [][NextEdge]_vars

----------------------------------------------------------------------------
(* The listings of the predictions *)

\* a LinkPrediction object right after construction, with a classifier on
\* the edge vectors or the one on the (source, destination) pairs
InitListing ==
    /\ entry = "LinkPrediction"
    /\ \E pt \in PosEdgeLists, pe \in PosEdgeLists,
          nt \in NegEdgeLists, ne \in NegEdgeLists, v \in ValidEdgeLists,
          m \in Methods, c \in {"LR", "MultiModalFFNN"}, u \in BOOLEAN :
          self = InitObject(pt, v[1], pe, nt, v[2], ne, ScenarioFile, m, c, u)
    /\ locals = InitLocals(NoArgs)
    /\ edge_list = <<>>
    /\ Quiet

NextListing ==
    \/ prepare_edge_and_node_labels
    \/ predict_links
    \/ predicted_ppi_links
    \/ predicted_ppi_non_links

SpecListing == InitListing /\ [][NextListing]_vars

----------------------------------------------------------------------------
(* A direct call of load_embeddings *)

\* load_embeddings(file_name): the call returns the store or raises
CallLoadEmbeddings ==
    /\ \/ entry = "load_embeddings"
       \/ entry = "write_embeddings" /\ locals.written
    /\ status = "running"
    /\ ret.exc = "unset"
    /\ \E r \in {load_embeddings(locals.file_name)} :
          /\ ret' = r
          /\ error' = r.exc
          /\ status' = IF r.exc = "none" THEN "running" ELSE "aborted"
    /\ UNCHANGED <<self, locals, entry, calls, built, log, emitted, edge_list>>

\* the fields a line can hold after its first: decimal numbers and a word
\* that is no number
FieldTexts == {str(0), str(1), "x"}

\* the lines of a file: a node, at most MaxFields further fields, and one
\* separator (a space or a tab) between the words of the line
FileLines ==
    {[sep |-> sp, words |-> <<n>> \o t] :
        sp \in {" ", "\t"}, n \in {"A", "B"}, t \in SeqsUpTo(FieldTexts, MaxFields)}

\* no path, the path of no file, the empty file, and every file of at most
\* MaxLines lines
LoadFiles == {NoPath, MissingFile} \cup {File(ls) : ls \in SeqsUpTo(FileLines, MaxLines)}

InitLoad ==
    /\ entry = "load_embeddings"
    /\ self = [kind |-> "None"]
    /\ \E f \in LoadFiles : locals = [file_name |-> f]
    /\ edge_list = <<>>
    /\ Quiet

NextLoad == CallLoadEmbeddings

SpecLoad == InitLoad /\ [][NextLoad]_vars

----------------------------------------------------------------------------
(* write_embeddings, and load_embeddings on the file written *)

\* node identifiers as Python values: a str or an int, and the text
\* '{word}'.format(word=word) writes for it
StrWord(text) == [type |-> "str", text |-> text]
IntWord(text) == [type |-> "int", text |-> text]

\* the lines written for the indexes xs (in sorted order) of the dictionary
WrittenLines(xs, embedding, reverse_worddictionary) ==
    [i \in 1..Len(xs) |->
        Line(reverse_worddictionary.v[xs[i]].text, embedding.v[xs[i] + 1], " ")]

\* the indexes written before get_embedding raises: all of them when every
\* index is a row of the embedding, else the ones before the first that is not
WrittenIndexes(xs, rows) ==
    SelectSeq(xs, LAMBDA x : \A y \in {xs[i] : i \in 1..Len(xs)} : y <= x => y < rows)

\* write_embeddings(out_file, embedding, reverse_worddictionary): the
\* exception, whether out_file was opened for writing, and its lines
write_embeddings(embedding, reverse_worddictionary) ==
    IF embedding.kind = "None" \/ reverse_worddictionary.kind = "None"
    THEN [exc |-> "ValueError", written |-> FALSE, lines |-> <<>>]
    ELSE [exc |-> IF \A x \in DOMAIN reverse_worddictionary.v : x < Len(embedding.v)
                  THEN "none" ELSE "InvalidArgumentError",
          written |-> TRUE,
          lines |-> WrittenLines(
                        WrittenIndexes(SortedSeq(DOMAIN reverse_worddictionary.v),
                                       Len(embedding.v)),
                        embedding, reverse_worddictionary)]

CallWriteEmbeddings ==
    /\ entry = "write_embeddings"
    /\ status = "running"
    /\ ~locals.written
    /\ \E w \in {write_embeddings(locals.embedding, locals.reverse_worddictionary)} :
          /\ locals' = [locals EXCEPT !.written = w.written,
                                      !.file_name = IF w.written THEN File(w.lines)
                                                    ELSE MissingFile]
          /\ error' = w.exc
          /\ status' = IF w.exc = "none" THEN "running" ELSE "aborted"
    /\ UNCHANGED <<self, entry, calls, built, log, emitted, edge_list, ret>>

\* the embeddings: None, and the arrays of one and of two rows
Embeddings ==
    {None} \cup {[kind |-> "ndarray", v |-> <<a>>] : a \in Vectors}
           \cup {[kind |-> "ndarray", v |-> <<a, b>>] : a \in Vectors, b \in Vectors}

\* the identifiers of the nodes: two strings and an integer
Words == {StrWord("A"), StrWord("B"), IntWord("7")}

\* the dictionaries from node index to node: None, and every dictionary of
\* at most two indexes that gives different indexes different nodes
WordDictionaries ==
    {None} \cup
    {[kind |-> "dict", v |-> d] :
        d \in {f \in UNION {[X -> Words] : X \in SUBSET {0, 1}} :
                  \A x, y \in DOMAIN f : x # y => f[x] # f[y]}}

InitWrite ==
    /\ entry = "write_embeddings"
    /\ self = [kind |-> "None"]
    /\ \E e \in Embeddings, d \in WordDictionaries :
          locals = [embedding |-> e, reverse_worddictionary |-> d,
                    file_name |-> MissingFile, written |-> FALSE]
    /\ edge_list = <<>>
    /\ Quiet

NextWrite == CallWriteEmbeddings \/ CallLoadEmbeddings

SpecWrite == InitWrite /\ [][NextWrite]_vars

----------------------------------------------------------------------------
(* Properties *)

\* the endpoints of every edge of a list are keys of the store
AllStored(edges, store) ==
    \A i \in 1..Len(edges) :
        edges[i][1] \in DOMAIN store /\ edges[i][2] \in DOMAIN store

\* the direct create_edge_embeddings call has returned or raised
Called == entry = "create_edge_embeddings" /\ ret.exc # "unset"

\* the edge lists and the assembled arrays of one partition of an object
PartNames == {"train", "test", "valid"}
PartitionOf(o, part) ==
    [pos |-> o["pos_" \o part \o "_edges"],
     neg |-> o["neg_" \o part \o "_edges"],
     src |-> o[part \o "_src_embs"],
     dst |-> o[part \o "_dst_embs"],
     edge |-> o[part \o "_edge_embs"],
     labels |-> o[part \o "_labels"]]
Assembled(P) == P.labels.kind = "ndarray"

EdgeListNames ==
    {"pos_train_edges", "neg_train_edges", "pos_test_edges", "neg_test_edges",
     "pos_valid_edges", "neg_valid_edges"}

\* C1: for every edge list whose endpoints are in the store load_embeddings
\* produced and each of the four operator names, create_edge_embeddings
\* returns, and the edge vector of every edge is component by component the
\* product (hadamard), the mean (average), the absolute difference
\* (weightedL1) or the squared difference (weightedL2) of the two stored
\* vectors.
C1_OperatorsElementwise ==
    (/\ Called
     /\ self.edge_embedding_method \in KnownMethods
     /\ AllStored(edge_list, self.map_node_vector))
    => /\ ret.exc = "none"
       /\ \A i \in 1..Len(edge_list) :
            ret.edge_embs[i] =
                TransformerEdgeVector(self.edge_embedding_method,
                                      self.map_node_vector[edge_list[i][1]].v,
                                      self.map_node_vector[edge_list[i][2]].v)

\* C2: for every edge list (the empty one included) whose endpoints are all
\* in the store, create_edge_embeddings returns three arrays with one row
\* per edge: row i of the source array is the stored vector of the first
\* node of edge i, row i of the destination array that of its second node,
\* and the edge array has a row for edge i too.
C2_ThreeArraysInOrder ==
    (/\ Called
     /\ self.edge_embedding_method \in KnownMethods
     /\ AllStored(edge_list, self.map_node_vector))
    => /\ ret.exc = "none"
       /\ Len(ret.src_embs) = Len(edge_list)
       /\ Len(ret.dst_embs) = Len(edge_list)
       /\ Len(ret.edge_embs) = Len(edge_list)
       /\ \A i \in 1..Len(edge_list) :
            /\ ret.src_embs[i] = self.map_node_vector[edge_list[i][1]].v
            /\ ret.dst_embs[i] = self.map_node_vector[edge_list[i][2]].v

\* C3: for each partition prepare_edge_and_node_labels has assembled, the
\* label array has |positive edges| + |negative edges| entries, the first
\* |positive edges| are 1 and the others 0, the feature, source and
\* destination arrays have that length too, and row i of each array is the
\* row of edge i of the positive list followed by the negative list.
C3_LabelsAligned ==
    entry = "LinkPrediction" =>
    \A part \in PartNames :
        LET P == PartitionOf(self, part)
            edges == P.pos \o P.neg
            store == self.map_node_vector
        IN  Assembled(P) =>
            /\ Len(P.labels.v) = Len(P.pos) + Len(P.neg)
            /\ Len(P.edge.v) = Len(edges)
            /\ Len(P.src.v) = Len(edges)
            /\ Len(P.dst.v) = Len(edges)
            /\ \A i \in 1..Len(edges) :
                 /\ P.labels.v[i] = (IF i <= Len(P.pos) THEN 1 ELSE 0)
                 /\ P.src.v[i] = store[edges[i][1]].v
                 /\ P.dst.v[i] = store[edges[i][2]].v
                 /\ P.edge.v[i] =
                        EdgeEmbedding(self.edge_embedding_method,
                                      store[edges[i][1]], store[edges[i][2]]).v

\* a train partition of MaxLen positive and two negative edges is assembled
C3_Witness ==
    /\ entry = "LinkPrediction"
    /\ Assembled(PartitionOf(self, "train"))
    /\ Len(self.pos_train_edges) = MaxLen
    /\ Len(self.neg_train_edges) = 2
    /\ self.train_labels.v = Repeat(1, MaxLen) \o <<0, 0>>
    /\ Len(self.train_edge_embs.v) = MaxLen + 2

\* the first edge of a list that names a node the store does not hold
FirstMissing(edges, store) ==
    CHOOSE i \in 1..Len(edges) :
        /\ ~AllStored(<<edges[i]>>, store)
        /\ AllStored(SubSeq(edges, 1, i - 1), store)

\* C4 as stated, for the operator names whose runs the subtraction of
\* weightedL1 / weightedL2 (C1) does not end: an edge list handed to the
\* builder that names a node absent from the store ends the run with the
\* lookup failure.
C4_LookupFailure ==
    (entry = "LinkPrediction"
     /\ self.edge_embedding_method \notin {"weightedL1", "weightedL2"})
    => \A name \in built :
          ~AllStored(self[name], self.map_node_vector) =>
              /\ status = "aborted"
              /\ error = "KeyError"

\* C4 amended: an edge list handed to the builder that names a node absent
\* from the store ends the run with a fatal error, the lookup failure
\* (KeyError) whenever the edges before the missing one were embedded; no
\* partition is assembled from such a list, and create_edge_embeddings
\* returns arrays only for lists without such an edge, one row per edge.
C4_MissingNodeAborts ==
    entry = "LinkPrediction" =>
    LET store == self.map_node_vector
        method == self.edge_embedding_method
    IN  /\ \A name \in built :
              ~AllStored(self[name], store) =>
                  /\ status = "aborted"
                  /\ error # "none"
                  /\ (\A j \in 1..(FirstMissing(self[name], store) - 1) :
                          EmbedEdge(self[name][j], store, method).exc = "none")
                     => error = "KeyError"
        /\ \A part \in PartNames :
              Assembled(PartitionOf(self, part)) =>
                  /\ AllStored(PartitionOf(self, part).pos, store)
                  /\ AllStored(PartitionOf(self, part).neg, store)
        /\ \A name \in EdgeListNames :
              create_edge_embeddings(self[name], store, method).exc = "none" =>
                  /\ AllStored(self[name], store)
                  /\ Len(create_edge_embeddings(self[name], store, method).edge_embs)
                         = Len(self[name])

\* the train partition is assembled, the negative test list names the
\* missing node and the run is aborted by the lookup failure
C4_Witness ==
    /\ entry = "LinkPrediction"
    /\ status = "aborted"
    /\ error = "KeyError"
    /\ "neg_test_edges" \in built
    /\ ~AllStored(self.neg_test_edges, self.map_node_vector)
    /\ Len(self.pos_test_edges) = MaxLen
    /\ Assembled(PartitionOf(self, "train"))
    /\ ~Assembled(PartitionOf(self, "test"))

\* C5: a run whose edge_embedding_method is none of the four operator
\* names, whatever its edge lists hold, is ended by a fatal error once the
\* edge lists are embedded, and no classifier is constructed, fitted or
\* asked to predict.
C5_UnknownMethodFatal ==
    (/\ entry = "LinkPrediction"
     /\ self.edge_embedding_method \notin KnownMethods
     /\ "pos_train_edges" \in built)
    => /\ status = "aborted"
       /\ calls = <<>>

\* C6: the calls on the classifier instance of a run start with its
\* creation, followed by one fit; every later call is a predict or a
\* predict_proba, and predictions exist only after that fit.
C6_FitOnceBeforePredict ==
    /\ calls # <<>> =>
          /\ calls[1].op = "create"
          /\ Len(calls) >= 2
          /\ calls[2].op = "fit"
          /\ \A i \in 3..Len(calls) : calls[i].op \in {"predict", "predict_proba"}
    /\ (entry = "LinkPrediction" /\ self.train_predictions.kind = "ndarray")
          => calls # <<>>
    /\ (entry = "main" /\ locals.y_train_pred.kind = "ndarray")
          => calls # <<>>

\* a run that predicted and scored all three partitions
C6_Witness ==
    /\ status = "running"
    /\ Len(calls) = 8
    /\ calls[8].op = "predict_proba"
    /\ self.validation_predictions.kind = "ndarray"

\* the names of the train partition's features and labels
TrainNames ==
    {"train_edge_embs", "train_src_embs", "train_dst_embs", "train_labels",
     "X_train", "y_train"}

\* C7: whatever the backend, every argument of a fit call is a feature
\* array or the label array of the train partition.
C7_FitOnTrainOnly ==
    \A i \in 1..Len(calls) :
        calls[i].op = "fit" =>
            \A j \in 1..Len(calls[i].args) : calls[i].args[j] \in TrainNames

\* the backend the specification names for a classifier name (section 3.3)
ExpectedBackend(name) ==
    CASE name = "LR"   -> "LogisticRegression"
      [] name = "RF"   -> "RandomForestClassifier"
      [] name = "MLP"  -> "MLP"
      [] name = "FFNN" -> "FFNN"
      [] name = "MultiModalFFNN" -> "MultiModalFFNN"
      [] OTHER -> "CalibratedClassifierCV(LinearSVC)"

RecognisedNames == {"LR", "RF", "SVM", "MLP", "FFNN", "MultiModalFFNN"}
SVMNotice == "Using SVM (default) classifier for link prediction"

\* the classifier name the run is configured with
ConfiguredClassifier ==
    IF entry = "main" THEN locals.args.classifier ELSE self.classifier

C9_FailsBeforeData ==
    error = "ValueError(classifier)" =>
        /\ built = {}
        /\ locals.X_train.kind = "unset"
        /\ locals.X_test.kind = "unset"
        /\ locals.X_valid.kind = "unset"
        /\ calls = <<>>

\* the run configuration declares validation absent
ValidationAbsent ==
    IF entry = "main" THEN locals.args.skipValidation ELSE ~self.use_validation

ValidNames ==
    {"valid_edge_embs", "valid_src_embs", "valid_dst_embs", "valid_labels",
     "X_valid", "y_valid"}

\* C10: with validation declared absent, the validation edge lists are
\* never embedded, the classifier is never called on validation rows, and
\* the validation features, labels, predictions, confusion matrix and
\* ranking scores keep their initial values.
C10_ValidationSkipped ==
    (entry \in {"LinkPrediction", "main"} /\ ValidationAbsent) =>
        /\ built \cap {"pos_valid_edges", "neg_valid_edges"} = {}
        /\ \A i \in 1..Len(calls) :
              \A j \in 1..Len(calls[i].args) : calls[i].args[j] \notin ValidNames
        /\ entry = "LinkPrediction" =>
              /\ self.valid_edge_embs = None
              /\ self.valid_src_embs = Unset
              /\ self.valid_dst_embs = Unset
              /\ self.valid_labels = Unset
              /\ self.validation_predictions = EmptyList
              /\ self.validation_confusion_matrix = EmptyList
              /\ self.valid_roc = None
              /\ self.valid_average_precision = None
        /\ entry = "main" =>
              /\ locals.X_valid = Unset
              /\ locals.y_valid = Unset
              /\ locals.y_valid_pred = Unset

\* the partitions of the blocks output_classifier_results has emitted
EmittedPartitions == [i \in 1..Len(emitted) |-> emitted[i].partition]

\* C11: a report that was emitted holds the training and the test block,
\* and the validation block exactly if validation is used.
C11_ReportBlocks ==
    /\ (entry = "LinkPrediction" /\ status = "running" /\ emitted # <<>>)
          => EmittedPartitions =
                 (IF self.use_validation
                  THEN <<"training", "validation", "test">>
                  ELSE <<"training", "test">>)
    /\ (entry = "main" /\ status = "done")
          => DOMAIN locals.report.v[1] =
                 (IF locals.args.skipValidation
                  THEN {"train", "test"}
                  ELSE {"train", "test", "valid"})

\* the confusion matrix attribute a block reports
MatrixOf(o, partition) ==
    CASE partition = "training"   -> o.train_confusion_matrix.v
      [] partition = "validation" -> o.validation_confusion_matrix.v
      [] partition = "test"       -> o.test_confusion_matrix.v

\* C12: every block output_classifier_results emits reports the confusion
\* matrix of its partition and, the matrix being 2x2 with both classes
\* non-empty, accuracy = (TN+TP)/total, specificity = TN/(TN+FP),
\* sensitivity = TP/(TP+FN) and F1 = 2TP/(2TP+FP+FN), whichever the partition.
C12_MetricFormulas ==
    entry = "LinkPrediction" =>
    \A i \in 1..Len(emitted) :
        LET b == emitted[i]
            cm == b.confusion_matrix
        IN  /\ cm = MatrixOf(self, b.partition)
            /\ (/\ Len(cm) = 2
                /\ cm[1][1] + cm[1][2] > 0
                /\ cm[2][1] + cm[2][2] > 0)
               => /\ b.accuracy = Rat(cm[1][1] + cm[2][2],
                                      cm[1][1] + cm[1][2] + cm[2][1] + cm[2][2])
                  /\ b.specificity = Rat(cm[1][1], cm[1][1] + cm[1][2])
                  /\ b.sensitivity = Rat(cm[2][2], cm[2][1] + cm[2][2])
                  /\ b.f1_score = Rat(2 * cm[2][2],
                                      2 * cm[2][2] + cm[1][2] + cm[2][1])

\* Scenario B in the validation block: 2 positives and 2 negatives all
\* predicted correctly, every metric 1
C12_Witness ==
    /\ entry = "LinkPrediction"
    /\ Len(emitted) = 3
    /\ emitted[2].partition = "validation"
    /\ emitted[2].confusion_matrix = << <<2, 0>>, <<0, 2>> >>
    /\ emitted[2].accuracy = <<1, 1>>
    /\ emitted[2].specificity = <<1, 1>>
    /\ emitted[2].sensitivity = <<1, 1>>
    /\ emitted[2].f1_score = <<1, 1>>
    /\ emitted[3].partition = "test"

\* exactly one of the two edge lists of a partition is empty
OneClassEmpty(P) == (Len(P.pos) = 0) # (Len(P.neg) = 0)

\* C13: a partition with an empty class is never assembled and never
\* reported: embedding its two edge lists ends the run with a fatal error;
\* and in every block that is emitted the denominators of specificity,
\* sensitivity and F1 are positive, so no metric is the outcome of a
\* division by zero.
C13_DegenerateIsFatal ==
    entry = "LinkPrediction" =>
    /\ \A part \in PartNames :
          OneClassEmpty(PartitionOf(self, part)) =>
              /\ ~Assembled(PartitionOf(self, part))
              /\ ("neg_" \o part \o "_edges") \in built
                    => (status = "aborted" /\ error # "none")
    /\ \A i \in 1..Len(emitted) :
          LET cm == emitted[i].confusion_matrix
          IN  /\ Len(cm) = 2
              /\ cm[1][1] + cm[1][2] > 0
              /\ cm[2][1] + cm[2][2] > 0
              /\ 2 * cm[2][2] + cm[1][2] + cm[2][1] > 0

\* the test partition has positive edges and no negative edge: the run is
\* ended by the ValueError of np.concatenate and nothing is reported
C13_Witness ==
    /\ entry = "LinkPrediction"
    /\ Len(self.pos_test_edges) = MaxLen
    /\ self.neg_test_edges = <<>>
    /\ "neg_test_edges" \in built
    /\ Assembled(PartitionOf(self, "train"))
    /\ status = "aborted"
    /\ error = "ValueError"
    /\ emitted = <<>>

\* C14: a run that a fatal condition has ended has emitted no block, and
\* what is emitted is the whole report: the training block, the validation
\* block if validation is used, the test block; main has no report unless
\* it returned.
C14_NoPartialReport ==
    /\ status = "aborted" => emitted = <<>>
    /\ (entry = "LinkPrediction" /\ emitted # <<>>)
          => /\ error = "none"
             /\ Len(emitted) = (IF self.use_validation THEN 3 ELSE 2)
             /\ emitted[1].partition = "training"
             /\ emitted[Len(emitted)].partition = "test"
    /\ (entry = "main" /\ status # "done") => locals.report = Unset

\* predict_links stored the train predictions and was then ended by the
\* classifier refusing the empty test partition: nothing is emitted
C14_Witness ==
    /\ entry = "LinkPrediction"
    /\ status = "aborted"
    /\ error = "ValueError"
    /\ self.train_predictions.kind = "ndarray"
    /\ self.test_predictions.kind = "list"
    /\ emitted = <<>>

\* edge j of the list is edge i reversed
Reversed(edges, i, j) == edges[j] = <<edges[i][2], edges[i][1]>>

\* C15: for each of the four operators, when a list of stored edges holds
\* an edge (u, v) and the edge (v, u), create_edge_embeddings returns, the
\* edge vectors of the two are the same, and the only difference is the
\* swap of their rows in the source and destination arrays.
C15_OrderInsensitive ==
    (/\ Called
     /\ self.edge_embedding_method \in KnownMethods
     /\ AllStored(edge_list, self.map_node_vector)
     /\ \E i, j \in 1..Len(edge_list) : Reversed(edge_list, i, j))
    => /\ ret.exc = "none"
       /\ \A i, j \in 1..Len(edge_list) :
            Reversed(edge_list, i, j)
               => /\ ret.edge_embs[i] = ret.edge_embs[j]
                  /\ ret.src_embs[i] = ret.dst_embs[j]
                  /\ ret.dst_embs[i] = ret.src_embs[j]

\* the number D of components of the node vectors of a store
Dimension(store) == Len(store[CHOOSE n \in DOMAIN store : TRUE].v)

\* C17: for each of the four operators and every non-empty list of stored
\* edges, create_edge_embeddings returns and every edge vector has exactly
\* the D components of the node vectors of the store.
C17_EdgeDimension ==
    (/\ Called
     /\ self.edge_embedding_method \in KnownMethods
     /\ edge_list # <<>>
     /\ AllStored(edge_list, self.map_node_vector))
    => /\ ret.exc = "none"
       /\ \A i \in 1..Len(edge_list) :
            Len(ret.edge_embs[i]) = Dimension(self.map_node_vector)

\* the lines are rows of whitespace-separated fields: a node and then the
\* same number of decimal numbers in every line
ConsistentRows(lines) ==
    /\ \A i \in 1..Len(lines) : AllNumbers(lines[i].words)
    /\ \A i, j \in 1..Len(lines) : Len(lines[i].words) = Len(lines[j].words)

\* C16: load_embeddings raises when there is no file, when the file is
\* empty and when its lines are not rows of one number D of numeric
\* components; the store it returns binds every node to a vector of the
\* same length.
C16_LoadChecksRows ==
    (entry = "load_embeddings" /\ ret.exc # "unset")
    => /\ (\/ locals.file_name.path # "file"
           \/ locals.file_name.lines = <<>>
           \/ ~ConsistentRows(locals.file_name.lines)) => ret.exc # "none"
       /\ ret.exc = "none"
             => \A m, n \in DOMAIN ret.store :
                   Len(ret.store[m].v) = Len(ret.store[n].v)

\* C18: the store of a LinkPrediction object is the one its constructor
\* loaded from the embedding file: no operation on the object changes the
\* nodes of the store or the vector bound to a node.
C18_StoreImmutable ==
    entry = "LinkPrediction"
       => self.map_node_vector = load_embeddings(self.embedded_train_graph).store

\* write_embeddings has returned and load_embeddings was called on its file
RoundTrip == entry = "write_embeddings" /\ ret.exc # "unset"

\* the str object that is a key of a loaded store, as a Python value
KeyOf(k) == StrWord(k)

\* C19 as stated: for every store written, load_embeddings returns a store
\* whose keys are the identifiers of the written nodes, one entry per node,
\* and the vector of a node has the components written, in order.
C19_RoundTrip ==
    RoundTrip
    => /\ ret.exc = "none"
       /\ {KeyOf(k) : k \in DOMAIN ret.store}
             = {locals.reverse_worddictionary.v[x] : x \in DOMAIN locals.reverse_worddictionary.v}
       /\ \A x \in DOMAIN locals.reverse_worddictionary.v :
             ret.store[locals.reverse_worddictionary.v[x].text].v = locals.embedding.v[x + 1]

\* C19 (amended): when the dictionary written has no node the file is
\* empty and load_embeddings raises TypeError; otherwise it returns a store
\* with exactly one entry per written node, keyed by the text written for
\* the identifier of the node (a str, also when the identifier is an int),
\* and the vector of a node has the length and the components written, in
\* order.
C19_RoundTripText ==
    RoundTrip
    => IF DOMAIN locals.reverse_worddictionary.v = {}
       THEN ret.exc = "TypeError"
       ELSE /\ ret.exc = "none"
            /\ DOMAIN ret.store
                  = {locals.reverse_worddictionary.v[x].text :
                        x \in DOMAIN locals.reverse_worddictionary.v}
            /\ Cardinality(DOMAIN ret.store)
                  = Cardinality(DOMAIN locals.reverse_worddictionary.v)
            /\ \A x \in DOMAIN locals.reverse_worddictionary.v :
                  /\ Len(ret.store[locals.reverse_worddictionary.v[x].text].v)
                        = Len(locals.embedding.v[x + 1])
                  /\ ret.store[locals.reverse_worddictionary.v[x].text].v
                        = locals.embedding.v[x + 1]

\* two nodes, the integer 7 and the string A, with different vectors were
\* written and loaded: the store has the keys "7" and "A"
C19_Witness ==
    /\ RoundTrip
    /\ ret.exc = "none"
    /\ DOMAIN locals.reverse_worddictionary.v = {0, 1}
    /\ locals.reverse_worddictionary.v[0] = IntWord("7")
    /\ locals.reverse_worddictionary.v[1] = StrWord("A")
    /\ locals.embedding.v = << <<1, 0>>, <<0, 1>> >>
    /\ DOMAIN ret.store = {"7", "A"}
    /\ ret.store["7"].v = <<1, 0>>
    /\ ret.store["A"].v = <<0, 1>>

\* the metric call m ranks the rows X by class-1 probabilities: its scores
\* are probability outputs of the classifier, one per row of X and the same
\* for equal rows, and its true labels are the labels of the partition
ByProbability(m, labels, X) ==
    /\ m.y_true = labels
    /\ Len(m.y_score) = Len(labels)
    /\ Len(m.y_score) = Len(X)
    /\ RowsOf(m.y_score) \subseteq ScoreLevels
    /\ \A i, j \in 1..Len(X) : X[i] = X[j] => m.y_score[i] = m.y_score[j]

\* an attribute that holds a metric holds one computed by probability
AttributeByProbability(a, labels, X) ==
    a.kind = "value" => ByProbability(a.v[1], labels.v, X)

\* C20: every ROC-AUC and average-precision value is computed from the
\* class-1 probabilities of the classifier, never from the hard labels of
\* predict, paired row by row with the true labels of the partition.
C20_ScoresAreProbabilities ==
    /\ entry = "LinkPrediction"
          => /\ AttributeByProbability(self.train_roc, self.train_labels, TrainX(self))
             /\ AttributeByProbability(self.train_average_precision,
                                       self.train_labels, TrainX(self))
             /\ AttributeByProbability(self.test_roc, self.test_labels, TestX(self))
             /\ AttributeByProbability(self.test_average_precision,
                                       self.test_labels, TestX(self))
             /\ AttributeByProbability(self.valid_roc, self.valid_labels, ValidX(self))
             /\ AttributeByProbability(self.valid_average_precision,
                                       self.valid_labels, ValidX(self))
    /\ (entry = "main" /\ status = "done")
          => /\ ByProbability(locals.report.v[1].train.roc,
                              locals.y_train.v, locals.X_train.v)
             /\ ByProbability(locals.report.v[1].train.ap,
                              locals.y_train.v, locals.X_train.v)
             /\ ByProbability(locals.report.v[1].test.roc,
                              locals.y_test.v, locals.X_test.v)
             /\ ByProbability(locals.report.v[1].test.ap,
                              locals.y_test.v, locals.X_test.v)

\* the confusion matrix attribute of a partition, and the name of its block
MatrixAttribute(o, part) ==
    CASE part = "train" -> o.train_confusion_matrix
      [] part = "test"  -> o.test_confusion_matrix
      [] part = "valid" -> o.validation_confusion_matrix
BlockName(part) ==
    CASE part = "train" -> "training"
      [] part = "test"  -> "test"
      [] part = "valid" -> "validation"

\* |positive edges| + |negative edges| of a partition
ExampleCount(o, part) ==
    Len(PartitionOf(o, part).pos) + Len(PartitionOf(o, part).neg)

\* the sum of the cells of a 2x2 matrix
CellSum(cm) == cm[1][1] + cm[1][2] + cm[2][1] + cm[2][2]

\* C21: every confusion matrix predict_links has built is 2x2 and its four
\* cells sum to |positive edges| + |negative edges| of its partition, and
\* the accuracy a block reports is (TN + TP) over that count.
C21_CellSumIsTotal ==
    entry = "LinkPrediction" =>
    \A part \in PartNames :
        MatrixAttribute(self, part).kind = "ndarray"
        => /\ Len(MatrixAttribute(self, part).v) = 2
           /\ \A i \in 1..2 : Len(MatrixAttribute(self, part).v[i]) = 2
           /\ CellSum(MatrixAttribute(self, part).v) = ExampleCount(self, part)
           /\ \A i \in 1..Len(emitted) :
                 emitted[i].partition = BlockName(part)
                 => emitted[i].accuracy =
                       Rat(MatrixAttribute(self, part).v[1][1]
                           + MatrixAttribute(self, part).v[2][2],
                           ExampleCount(self, part))

\* the three matrices are built, the test one with a false positive and a
\* false negative among its 4 examples, and the report is emitted
C21_Witness ==
    /\ entry = "LinkPrediction"
    /\ self.use_validation
    /\ \A part \in PartNames : MatrixAttribute(self, part).kind = "ndarray"
    /\ self.test_confusion_matrix.v = << <<1, 1>>, <<1, 1>> >>
    /\ ExampleCount(self, "test") = 4
    /\ Len(emitted) = 3
    /\ emitted[3].accuracy = <<1, 2>>

\* predict_links has made its last assignment
PredictDone(o) ==
    /\ o.test_average_precision.kind = "value"
    /\ UseValidation(o) => o.valid_average_precision.kind = "value"

\* the prediction array of a partition
PredictionsOf(o, part) ==
    IF part = "test" THEN o.test_predictions ELSE o.validation_predictions

\* edge number i of the positive list followed by the negative list
EdgeOfRow(P, i) == IF i <= Len(P.pos) THEN P.pos[i] ELSE P.neg[i - Len(P.pos)]

\* the prediction array of the partition has one entry per edge, and row i
\* of the arrays the classifier saw is the row of edge i of the positive
\* list followed by the negative list
RowsAreEdges(o, part) ==
    /\ Len(PredictionsOf(o, part).v) = ExampleCount(o, part)
    /\ Len(PartitionOf(o, part).edge.v) = ExampleCount(o, part)
    /\ \A i \in 1..ExampleCount(o, part) :
          /\ PartitionOf(o, part).src.v[i]
                = o.map_node_vector[EdgeOfRow(PartitionOf(o, part), i)[1]].v
          /\ PartitionOf(o, part).dst.v[i]
                = o.map_node_vector[EdgeOfRow(PartitionOf(o, part), i)[2]].v
          /\ PartitionOf(o, part).edge.v[i]
                = EdgeEmbedding(o.edge_embedding_method,
                                o.map_node_vector[EdgeOfRow(PartitionOf(o, part), i)[1]],
                                o.map_node_vector[EdgeOfRow(PartitionOf(o, part), i)[2]]).v

\* the lines that pair each edge of the partition with the prediction of
\* its own row
OwnLines(o, part) ==
    {PredictionLine(EdgeOfRow(PartitionOf(o, part), i), PredictionsOf(o, part).v[i]) :
        i \in 1..ExampleCount(o, part)}

\* the partitions the two methods list
ListedParts(o) == IF UseValidation(o) THEN {"test", "valid"} ELSE {"test"}

\* every line that pairs an edge with a label
AllLines ==
    {PredictionLine(<<u, v>>, l) : u \in StoredNodes \cup {"C"},
                                   v \in StoredNodes \cup {"C"}, l \in {0, 1}}

\* C22: once prepare_edge_and_node_labels and predict_links have run, the
\* test prediction array has |pos_test_edges| + |neg_test_edges| entries and
\* row i is the row of edge i (positives first), so neither listing method
\* raises and every line logged pairs an edge with the prediction the
\* classifier made for the row of that edge: positive edge i with row i,
\* negative edge j with row |pos_test_edges| + j; the same holds of the
\* validation arrays when validation is used.
C22_ListingsAligned ==
    (entry = "LinkPrediction" /\ PredictDone(self))
    => /\ error = "none"
       /\ PredictedLinks(self).exc = "none"
       /\ PredictedNonLinks(self).exc = "none"
       /\ \A part \in ListedParts(self) : RowsAreEdges(self, part)
       /\ log \cap AllLines \subseteq UNION {OwnLines(self, part) : part \in ListedParts(self)}
       /\ "positive test edges and their prediction:" \in log
             => \A i \in 1..Len(self.pos_test_edges) :
                   PredictionLine(self.pos_test_edges[i], self.test_predictions.v[i]) \in log
       /\ "negative test edges and their prediction:" \in log
             => \A j \in 1..Len(self.neg_test_edges) :
                   PredictionLine(self.neg_test_edges[j],
                                  self.test_predictions.v[Len(self.pos_test_edges) + j]) \in log
       /\ "positive validation edges and their prediction:" \in log
             => \A i \in 1..Len(self.pos_valid_edges) :
                   PredictionLine(self.pos_valid_edges[i],
                                  self.validation_predictions.v[i]) \in log
       /\ "negative validation edges and their prediction:" \in log
             => \A j \in 1..Len(self.neg_valid_edges) :
                   PredictionLine(self.neg_valid_edges[j],
                                  self.validation_predictions.v[Len(self.pos_valid_edges) + j]) \in log

\* both methods have listed the test and the validation edges of a run whose
\* classifier predicts 1 for the positive and 0 for the negative edges
C22_Witness ==
    /\ entry = "LinkPrediction"
    /\ PredictDone(self)
    /\ self.use_validation
    /\ status = "running"
    /\ self.test_predictions.v = <<1, 1, 0, 0>>
    /\ self.validation_predictions.v = <<1, 1, 0, 0>>
    /\ "positive validation edges and their prediction:" \in log
    /\ "negative validation edges and their prediction:" \in log
    /\ PredictionLine(PosEdge1, 1) \in log
    /\ PredictionLine(NegEdge2, 0) \in log

====
